---- MODULE Spec2Model ----
(***************************************************************************)
(* Model of gst-plugin/src/adapter.rs: the Adapter, a FIFO of read-mapped  *)
(* buffers presented as one logical byte stream.                           *)
(*                                                                         *)
(* A chunk (ReadMappedBuffer) is the sequence of its bytes.  The adapter   *)
(* never branches on a byte's value, so the producer labels the bytes it   *)
(* pushes by their position in the pushed stream (ByteAt): every misplaced,*)
(* repeated or lost byte is then visible in a result.                      *)
(*                                                                         *)
(* A Rust panic (unwrap() on None, a slice index out of range, a failed    *)
(* assert_eq!, usize underflow in a debug build) is the return value       *)
(* "Abort"; the thread that owns the adapter unwinds and makes no further  *)
(* call.                                                                   *)
(***************************************************************************)
EXTENDS Integers, Sequences, FiniteSets, TLC

\* ------------------------------------------------------------------ bounds
MaxQueue == 3       \* chunks held in the deque at once
MaxChunkLen == 3    \* length of a pushed buffer, 0 included
MaxBytes == 5       \* bytes pushed over the adapter's life
MaxReq == 4         \* largest size asked of peek_into/peek/get_buffer/flush
MaxPos == 2         \* length of the resource HttpSrc fetches; offsets are 0..MaxPos
MaxBuf == 2         \* length of the buffer handed to HttpSrc::fill

ChunkLens == 0..MaxChunkLen
ReqSizes == 0..MaxReq
\* what a destination holds before copy_data writes it (caller's storage for
\* peek_into, the fresh allocation of Buffer::new_with_size for get_buffer)
Fills == {0, 255}

VARIABLES deque, size, skip, scratch, pushed, call, pre, tally

\* gst-plugin-http/src/httpsrc.rs: HttpSrc.streaming_state, the last call made
\* on the source with its answer, and streaming_state before that call
VARIABLES streaming_state, src_call, src_pre

adapter_vars == <<deque, size, skip, scratch, pushed, call, pre, tally>>

src_vars == <<streaming_state, src_call, src_pre>>

vars == <<adapter_vars, src_vars>>

\* ----------------------------------------------------------------- helpers
Min(a, b) == IF a < b THEN a ELSE b

RECURSIVE SumLen(_)
SumLen(q) == IF q = <<>> THEN 0 ELSE Len(Head(q)) + SumLen(Tail(q))

RECURSIVE Concat(_)
Concat(q) == IF q = <<>> THEN <<>> ELSE Head(q) \o Concat(Tail(q))

Take(s, n) == SubSeq(s, 1, n)
Drop(s, n) == SubSeq(s, n + 1, Len(s))

\* the byte the producer puts at position p of the pushed stream (a u8)
ByteAt(p) == p % 256

\* the buffer the producer pushes next: l bytes following the `from` already pushed
NewBuffer(from, l) == [i \in 1..l |-> ByteAt(from + i)]

\* the four fields of struct Adapter
Adapter(d, sz, sk, sc) == [deque |-> d, size |-> sz, skip |-> sk, scratch |-> sc]

\* what a call leaves behind: the adapter, the Result, the bytes handed back,
\* and which branch produced them
Outcome(a, ret, out, path) == [a |-> a, ret |-> ret, out |-> out, path |-> path]

\* -------------------------------------------------------------- operations
new == Adapter(<<>>, 0, 0, <<>>)

\* push counting one per buffer in size, not the buffer's length
push_adds_one(a, buffer) ==
    Adapter(Append(a.deque, buffer), a.size + 1, a.skip, a.scratch)

\* push putting the buffer in front of the queue (push_front for push_back)
push_prepends(a, buffer) ==
    Adapter(<<buffer>> \o a.deque, a.size + Len(buffer), a.skip, a.scratch)

push(a, buffer) ==
    Adapter(Append(a.deque, buffer), a.size + Len(buffer), a.skip, a.scratch)

\* clear that leaves out `self.skip = 0`
clear_keeps_skip(a) == Adapter(<<>>, 0, a.skip, <<>>)

clear(a) == Adapter(<<>>, 0, 0, <<>>)

get_available(a) == a.size

\* copy_item with `skip = 0` left out: the front chunk's skip is applied to
\* every later chunk as well
copy_item_keeps_skip(item, c) ==
    IF Len(item) < c.skip
    THEN [c EXCEPT !.ok = FALSE]
    ELSE LET to_copy == Min(c.left, Len(item) - c.skip) IN
         IF c.idx + to_copy > Len(c.data)
         THEN [c EXCEPT !.ok = FALSE]
         ELSE [ok |-> TRUE,
               data |-> [i \in 1..Len(c.data) |->
                           IF i > c.idx /\ i <= c.idx + to_copy
                           THEN item[c.skip + (i - c.idx)]
                           ELSE c.data[i]],
               skip |-> c.skip,
               idx |-> c.idx + to_copy,
               left |-> c.left - to_copy]

\* copy_item reading &data_item[0..to_copy]: the chunk from its start
copy_item_reads_from_start(item, c) ==
    IF Len(item) < c.skip
    THEN [c EXCEPT !.ok = FALSE]
    ELSE LET to_copy == Min(c.left, Len(item) - c.skip) IN
         IF c.idx + to_copy > Len(c.data)
         THEN [c EXCEPT !.ok = FALSE]
         ELSE [ok |-> TRUE,
               data |-> [i \in 1..Len(c.data) |->
                           IF i > c.idx /\ i <= c.idx + to_copy
                           THEN item[i - c.idx]
                           ELSE c.data[i]],
               skip |-> 0,
               idx |-> c.idx + to_copy,
               left |-> c.left - to_copy]

\* one iteration of copy_data's for loop over `item`; c = [ok, data, skip, idx, left]
copy_item(item, c) ==
    IF Len(item) < c.skip
    THEN [c EXCEPT !.ok = FALSE]                 \* data_item.len() - skip underflows
    ELSE LET to_copy == Min(c.left, Len(item) - c.skip) IN
         IF c.idx + to_copy > Len(c.data)
         THEN [c EXCEPT !.ok = FALSE]            \* data[idx..idx + to_copy] out of range
         ELSE [ok |-> TRUE,
               data |-> [i \in 1..Len(c.data) |->
                           IF i > c.idx /\ i <= c.idx + to_copy
                           THEN item[c.skip + (i - c.idx)]
                           ELSE c.data[i]],
               skip |-> 0,
               idx |-> c.idx + to_copy,
               left |-> c.left - to_copy]

\* copy_data's loop leaving at the first chunk that gives no byte
\* (`if to_copy == 0 { break; }`)
RECURSIVE copy_loop_stops_at_empty(_, _)
copy_loop_stops_at_empty(q, c) ==
    IF q = <<>> THEN c
    ELSE LET c2 == copy_item(Head(q), c) IN
         IF ~c2.ok THEN c2
         ELSE IF c2.left = 0 \/ c2.idx = c.idx THEN c2
         ELSE copy_loop_stops_at_empty(Tail(q), c2)

RECURSIVE copy_loop(_, _)
copy_loop(q, c) ==
    IF q = <<>> THEN c
    ELSE LET c2 == copy_item(Head(q), c) IN
         IF ~c2.ok THEN c2
         ELSE IF c2.left = 0 THEN c2             \* break
         ELSE copy_loop(Tail(q), c2)

\* copy_data(deque, skip, data, size): [ok, data]; ok = FALSE is a panic
copy_data(q, sk, data, sz) ==
    LET c == copy_loop(q, [ok |-> TRUE, data |-> data, skip |-> sk, idx |-> 0, left |-> sz]) IN
    [ok |-> c.ok /\ c.left = 0, data |-> c.data]     \* assert_eq!(left, 0)

peek_into(a, data) ==
    LET sz == Len(data) IN
    IF a.size < sz THEN Outcome(a, "NotEnoughData", data, "none")
    ELSE IF sz = 0 THEN Outcome(a, "Ok", data, "none")
    ELSE LET r == copy_data(a.deque, a.skip, data, sz) IN
         Outcome(a, IF r.ok THEN "Ok" ELSE "Abort", r.data, "copy")

\* the slow path of peek: scratch.truncate(0); scratch.reserve(size);
\* scratch.as_mut_slice() is the slice of scratch's len() bytes
peek_scratch(a, sz) ==
    LET truncated == Take(a.scratch, 0)
        a2 == Adapter(a.deque, a.size, a.skip, truncated)
        r == copy_data(a.deque, a.skip, truncated, sz) IN
    IF r.ok THEN Outcome(Adapter(a.deque, a.size, a.skip, r.data), "Ok", r.data, "copy")
    ELSE Outcome(a2, "Abort", <<>>, "copy")

\* peek whose fast-path test is `front.get_size() - self.skip > size`
peek_strict_fit(a, sz) ==
    IF a.size < sz THEN Outcome(a, "NotEnoughData", <<>>, "none")
    ELSE IF sz = 0 THEN Outcome(a, "Ok", <<>>, "none")
    ELSE IF a.deque # <<>> /\ Len(Head(a.deque)) < a.skip
    THEN Outcome(a, "Abort", <<>>, "none")
    ELSE IF a.deque # <<>> /\ Len(Head(a.deque)) - a.skip > sz
    THEN Outcome(a, "Ok", SubSeq(Head(a.deque), a.skip + 1, a.skip + sz), "sub")
    ELSE peek_scratch(a, sz)

\* peek that advances past what it returns on the fast path, as get_buffer does
peek_consumes(a, sz) ==
    IF a.size < sz THEN Outcome(a, "NotEnoughData", <<>>, "none")
    ELSE IF sz = 0 THEN Outcome(a, "Ok", <<>>, "none")
    ELSE IF a.deque # <<>> /\ Len(Head(a.deque)) < a.skip
    THEN Outcome(a, "Abort", <<>>, "none")
    ELSE IF a.deque # <<>> /\ Len(Head(a.deque)) - a.skip > sz
    THEN Outcome(Adapter(a.deque, a.size - sz, a.skip + sz, a.scratch), "Ok",
                 SubSeq(Head(a.deque), a.skip + 1, a.skip + sz), "sub")
    ELSE IF a.deque # <<>> /\ Len(Head(a.deque)) - a.skip = sz
    THEN Outcome(Adapter(Tail(a.deque), a.size - sz, 0, a.scratch), "Ok",
                 SubSeq(Head(a.deque), a.skip + 1, a.skip + sz), "sub")
    ELSE peek_scratch(a, sz)

peek(a, sz) ==
    IF a.size < sz THEN Outcome(a, "NotEnoughData", <<>>, "none")
    ELSE IF sz = 0 THEN Outcome(a, "Ok", <<>>, "none")
    ELSE IF a.deque # <<>> /\ Len(Head(a.deque)) < a.skip
    THEN Outcome(a, "Abort", <<>>, "none")       \* front.get_size() - skip underflows
    ELSE IF a.deque # <<>> /\ Len(Head(a.deque)) - a.skip >= sz
    THEN Outcome(a, "Ok", SubSeq(Head(a.deque), a.skip + 1, a.skip + sz), "sub")
    ELSE peek_scratch(a, sz)

\* flush_step whose partial branch leaves out `self.size -= left`
flush_step_keeps_size(f) ==
    IF f.a.deque = <<>> \/ Len(Head(f.a.deque)) < f.a.skip
    THEN [f EXCEPT !.ok = FALSE]
    ELSE LET front_size == Len(Head(f.a.deque)) - f.a.skip IN
         IF front_size <= f.left
         THEN [ok |-> TRUE,
               a |-> Adapter(Tail(f.a.deque), f.a.size - front_size, 0, f.a.scratch),
               left |-> f.left - front_size]
         ELSE [ok |-> TRUE,
               a |-> Adapter(f.a.deque, f.a.size, f.a.skip + f.left, f.a.scratch),
               left |-> 0]

\* flush_step whose whole-chunk branch subtracts the chunk's full length
\* from size and left, not its length past skip
flush_step_pops_full_len(f) ==
    IF f.a.deque = <<>> \/ Len(Head(f.a.deque)) < f.a.skip
    THEN [f EXCEPT !.ok = FALSE]
    ELSE LET front_size == Len(Head(f.a.deque)) - f.a.skip IN
         IF front_size <= f.left
         THEN [ok |-> TRUE,
               a |-> Adapter(Tail(f.a.deque), f.a.size - Len(Head(f.a.deque)), 0, f.a.scratch),
               left |-> f.left - front_size]
         ELSE [ok |-> TRUE,
               a |-> Adapter(f.a.deque, f.a.size - f.left, f.a.skip + f.left, f.a.scratch),
               left |-> 0]

\* flush_step whose partial branch has `self.skip = left` for `self.skip += left`
flush_step_sets_skip(f) ==
    IF f.a.deque = <<>> \/ Len(Head(f.a.deque)) < f.a.skip
    THEN [f EXCEPT !.ok = FALSE]
    ELSE LET front_size == Len(Head(f.a.deque)) - f.a.skip IN
         IF front_size <= f.left
         THEN [ok |-> TRUE,
               a |-> Adapter(Tail(f.a.deque), f.a.size - front_size, 0, f.a.scratch),
               left |-> f.left - front_size]
         ELSE [ok |-> TRUE,
               a |-> Adapter(f.a.deque, f.a.size - f.left, f.left, f.a.scratch),
               left |-> 0]

\* flush_step whose partial branch advances one byte per iteration
\* (`self.skip += 1; self.size -= 1; left -= 1`)
flush_step_bytewise(f) ==
    IF f.a.deque = <<>> \/ Len(Head(f.a.deque)) < f.a.skip
    THEN [f EXCEPT !.ok = FALSE]
    ELSE LET front_size == Len(Head(f.a.deque)) - f.a.skip IN
         IF front_size <= f.left
         THEN [ok |-> TRUE,
               a |-> Adapter(Tail(f.a.deque), f.a.size - front_size, 0, f.a.scratch),
               left |-> f.left - front_size]
         ELSE [ok |-> TRUE,
               a |-> Adapter(f.a.deque, f.a.size - 1, f.a.skip + 1, f.a.scratch),
               left |-> f.left - 1]

\* one iteration of flush's while loop; f = [ok, a, left]
flush_step(f) ==
    IF f.a.deque = <<>>
    THEN [f EXCEPT !.ok = FALSE]                 \* deque.front().unwrap() on None
    ELSE IF Len(Head(f.a.deque)) < f.a.skip
    THEN [f EXCEPT !.ok = FALSE]                 \* get_size() - skip underflows
    ELSE LET front_size == Len(Head(f.a.deque)) - f.a.skip IN
         IF front_size <= f.left
         THEN [ok |-> TRUE,
               a |-> Adapter(Tail(f.a.deque), f.a.size - front_size, 0, f.a.scratch),
               left |-> f.left - front_size]
         ELSE [ok |-> TRUE,
               a |-> Adapter(f.a.deque, f.a.size - f.left, f.a.skip + f.left, f.a.scratch),
               left |-> 0]

RECURSIVE flush_loop(_)
flush_loop(f) ==
    IF ~f.ok \/ f.left <= 0 THEN f ELSE flush_loop(flush_step(f))

\* flush whose size check counts the skipped bytes of the front chunk too
flush_checks_queued_bytes(a, sz) ==
    IF a.size + a.skip < sz THEN Outcome(a, "NotEnoughData", <<>>, "none")
    ELSE IF sz = 0 THEN Outcome(a, "Ok", <<>>, "none")
    ELSE LET f == flush_loop([ok |-> TRUE, a |-> a, left |-> sz]) IN
         Outcome(f.a, IF f.ok THEN "Ok" ELSE "Abort", <<>>, "loop")

\* flush whose size check is `self.size <= size`
flush_refuses_exact(a, sz) ==
    IF a.size <= sz THEN Outcome(a, "NotEnoughData", <<>>, "none")
    ELSE IF sz = 0 THEN Outcome(a, "Ok", <<>>, "none")
    ELSE LET f == flush_loop([ok |-> TRUE, a |-> a, left |-> sz]) IN
         Outcome(f.a, IF f.ok THEN "Ok" ELSE "Abort", <<>>, "loop")

flush(a, sz) ==
    IF a.size < sz THEN Outcome(a, "NotEnoughData", <<>>, "none")
    ELSE IF sz = 0 THEN Outcome(a, "Ok", <<>>, "none")
    ELSE LET f == flush_loop([ok |-> TRUE, a |-> a, left |-> sz]) IN
         Outcome(f.a, IF f.ok THEN "Ok" ELSE "Abort", <<>>, "loop")

\* Buffer::copy_region(skip, Some(size)) of the front chunk's buffer
copy_region(buffer, offset, sz) == SubSeq(buffer, offset + 1, offset + sz)

\* self.flush(size).unwrap() then Ok(buf)
flush_unwrap(a, sz, buf, path) ==
    LET fl == flush(a, sz) IN
    IF fl.ret = "Ok" THEN Outcome(fl.a, "Ok", buf, path)
    ELSE Outcome(fl.a, "Abort", <<>>, path)

\* `alloc` is what Buffer::new_with_size(size) holds before it is written
get_buffer(a, sz, alloc) ==
    IF a.size < sz THEN Outcome(a, "NotEnoughData", <<>>, "none")
    ELSE IF sz = 0 THEN Outcome(a, "Ok", <<>>, "none")
    ELSE IF a.deque # <<>> /\ Len(Head(a.deque)) < a.skip
    THEN Outcome(a, "Abort", <<>>, "none")       \* front.get_size() - skip underflows
    ELSE IF a.deque # <<>> /\ Len(Head(a.deque)) - a.skip >= sz
    THEN flush_unwrap(a, sz, copy_region(Head(a.deque), a.skip, sz), "sub")
    ELSE LET r == copy_data(a.deque, a.skip, alloc, sz) IN
         IF r.ok THEN flush_unwrap(a, sz, r.data, "copy")
         ELSE Outcome(a, "Abort", <<>>, "copy")

\* ----------------------------------------------------------------- HttpSrc
\* Option<u64>: None is <<>>, Some(v) is <<v>>
None == <<>>
Some(v) == <<v>>

\* StreamingState::Stopped
Stopped == [tag |-> "Stopped"]

\* StreamingState::Started { uri, response, seekable, position, size, start, stop }.
\* The Response is the body stream of the request made at `start`: how many
\* bytes fill has read from it and how many it still holds.
Started(uri, response, seekable, position, sz, start, stop) ==
    [tag |-> "Started", uri |-> uri, response |-> response, seekable |-> seekable,
     position |-> position, size |-> sz, start |-> start, stop |-> stop]

\* what a call on the source leaves behind: streaming_state and the Result
SrcOutcome(st, ret) == [state |-> st, ret |-> ret]

\* the body the server sends for a request of [start, stop): the resource has
\* MaxPos bytes
Body(start, stop) ==
    LET end == IF stop = None THEN MaxPos ELSE Min(stop[1], MaxPos) IN
    [read |-> 0, remaining |-> IF end > start THEN end - start ELSE 0]

\* HttpSrc::new
HttpSrc_new == Stopped

\* do_request(uri, start, stop) answered by the server with `srv` =
\* [send_ok, status_ok, content_length, accept_ranges, content_range];
\* `wraps` is the build: `stop - 1` on Some(0) wraps in a release build and
\* panics in a debug build
do_request(uri, start, stop, srv, wraps) ==
    IF stop # None /\ stop[1] = 0 /\ ~wraps THEN SrcOutcome(Stopped, "Abort")
    ELSE IF ~srv.send_ok THEN SrcOutcome(Stopped, "ReadFailed")
    ELSE IF ~srv.status_ok THEN SrcOutcome(Stopped, "ReadFailed")
    ELSE LET sz == IF srv.content_length = None THEN None
                   ELSE Some(srv.content_length[1] + start)
             seekable == sz # None /\ srv.accept_ranges
             position == IF srv.content_range = None THEN start
                         ELSE srv.content_range[1] IN
         IF position # start THEN SrcOutcome(Stopped, "SeekFailed")
         ELSE SrcOutcome(Started(uri, Body(start, stop), seekable, 0, sz, start, stop), "Ok")

is_seekable(st) == IF st.tag = "Started" THEN st.seekable ELSE FALSE

get_size(st) == IF st.tag = "Started" THEN st.size ELSE None

\* start: streaming_state = Stopped, then try!(do_request(uri, 0, None))
src_start(st, uri, srv, wraps) == do_request(uri, 0, None, srv, wraps)

src_stop(st) == SrcOutcome(Stopped, "Ok")

\* seek that leaves out `self.streaming_state = StreamingState::Stopped`
\* before the new request
src_seek_keeps_state(st, start, stop, srv, wraps) ==
    IF st.tag = "Stopped" THEN SrcOutcome(st, "Failure")
    ELSE IF st.position = start /\ st.stop = stop THEN SrcOutcome(st, "Ok")
    ELSE LET r == do_request(st.uri, start, stop, srv, wraps) IN
         IF r.ret = "Ok" THEN r ELSE SrcOutcome(st, r.ret)

src_seek(st, start, stop, srv, wraps) ==
    IF st.tag = "Stopped" THEN SrcOutcome(st, "Failure")        \* "Not started yet"
    ELSE IF st.position = start /\ st.stop = stop THEN SrcOutcome(st, "Ok")
    ELSE do_request(st.uri, start, stop, srv, wraps)

\* fill(offset, _, buffer): `map_ok` is buffer.map_readwrite() giving a map,
\* `rd` = [ok, n] is what response.read(data) returns: an error or n bytes read
src_fill(st, offset, map_ok, rd) ==
    IF st.tag = "Stopped" THEN SrcOutcome(st, "Failure")        \* "Not started yet"
    ELSE IF st.position # offset THEN SrcOutcome(st, "SeekFailed")
    ELSE IF ~map_ok THEN SrcOutcome(st, "Failure")
    ELSE IF ~rd.ok THEN SrcOutcome(st, "ReadFailed")
    ELSE IF rd.n = 0 THEN SrcOutcome(st, "Eos")
    ELSE SrcOutcome([st EXCEPT !.position = @ + rd.n,
                               !.response = [read |-> @.read + rd.n,
                                             remaining |-> @.remaining - rd.n]],
                    "Ok")

SrcInit ==
    /\ streaming_state = HttpSrc_new
    /\ src_call = [name |-> "new", ret |-> "Ok", start |-> 0, stop |-> None,
                   requested |-> FALSE, srv_ok |-> FALSE]
    /\ src_pre = HttpSrc_new

\* ------------------------------------------------------------ state machine
Self == Adapter(deque, size, skip, scratch)

Running == call.ret # "Abort"

\* the caller's own count, from what it passed and what it was answered:
\* bytes pushed and bytes taken by successful flush/get_buffer calls since
\* creation or the last clear
Tally(t, name, n, ret) ==
    IF name = "clear" THEN [pushed |-> 0, removed |-> 0]
    ELSE IF name = "push" THEN [t EXCEPT !.pushed = @ + n]
    ELSE IF name \in {"flush", "get_buffer"} /\ ret = "Ok" THEN [t EXCEPT !.removed = @ + n]
    ELSE t

Called(name, n, o) ==
    /\ deque' = o.a.deque
    /\ size' = o.a.size
    /\ skip' = o.a.skip
    /\ scratch' = o.a.scratch
    /\ call' = [name |-> name, n |-> n, ret |-> o.ret, out |-> o.out, path |-> o.path]
    /\ pre' = Self
    /\ tally' = Tally(tally, name, n, o.ret)
    /\ UNCHANGED src_vars

Init ==
    /\ deque = new.deque
    /\ size = new.size
    /\ skip = new.skip
    /\ scratch = new.scratch
    /\ pushed = 0
    /\ call = [name |-> "new", n |-> 0, ret |-> "Ok", out |-> <<>>, path |-> "none"]
    /\ pre = new
    /\ tally = [pushed |-> 0, removed |-> 0]
    /\ SrcInit

Push ==
    /\ Running
    /\ Len(deque) < MaxQueue
    /\ \E l \in ChunkLens :
        /\ pushed + l <= MaxBytes
        /\ Called("push", l, Outcome(push(Self, NewBuffer(pushed, l)), "Ok", <<>>, "none"))
        /\ pushed' = pushed + l

Clear ==
    /\ Running
    /\ Called("clear", 0, Outcome(clear(Self), "Ok", <<>>, "none"))
    /\ UNCHANGED pushed

PeekInto ==
    /\ Running
    /\ \E n \in ReqSizes, fill \in Fills :
        Called("peek_into", n, peek_into(Self, [i \in 1..n |-> fill]))
    /\ UNCHANGED pushed

Peek ==
    /\ Running
    /\ \E n \in ReqSizes : Called("peek", n, peek(Self, n))
    /\ UNCHANGED pushed

GetBuffer ==
    /\ Running
    /\ \E n \in ReqSizes, fill \in Fills :
        Called("get_buffer", n, get_buffer(Self, n, [i \in 1..n |-> fill]))
    /\ UNCHANGED pushed

Flush ==
    /\ Running
    /\ \E n \in ReqSizes : Called("flush", n, flush(Self, n))
    /\ UNCHANGED pushed

Next == Push \/ Clear \/ PeekInto \/ Peek \/ GetBuffer \/ Flush

Spec == Init /\ [][Next]_vars

\* ------------------------------------------------- HttpSrc state machine
Offsets == 0..MaxPos
Stops == {None} \cup {Some(p) : p \in Offsets}
BufLens == 1..MaxBuf

\* the answers a server can give to a request of [start, stop): none at all
\* (send fails), a failure status, or success with or without Content-Length,
\* Accept-Ranges: bytes, and a Content-Range that starts at `start` or elsewhere
Servers(start, stop) ==
    LET silent == [send_ok |-> FALSE, status_ok |-> FALSE, accept_ranges |-> FALSE,
                   content_length |-> None, content_range |-> None] IN
    {silent, [silent EXCEPT !.send_ok = TRUE]}
        \cup [send_ok : {TRUE}, status_ok : {TRUE}, accept_ranges : BOOLEAN,
              content_length : {None, Some(Body(start, stop).remaining)},
              content_range : {None, Some(start), Some((start + 1) % (MaxPos + 1))}]

\* the builds that differ on this request: `stop - 1` overflows on Some(0) only
Builds(stop) == IF stop = Some(0) THEN BOOLEAN ELSE {TRUE}

\* the request was sent, answered with success, and for the range asked
ServerOk(srv, start) ==
    /\ srv.send_ok /\ srv.status_ok
    /\ (srv.content_range = None \/ srv.content_range = Some(start))

\* what response.read(data) can return with `len` bytes of room: an error, or
\* up to len bytes of what the body still holds, 0 only at its end
Reads(st, len) ==
    {[ok |-> FALSE, n |-> 0]}
        \cup IF st.tag = "Started" /\ st.response.remaining > 0
             THEN {[ok |-> TRUE, n |-> k] : k \in 1..Min(len, st.response.remaining)}
             ELSE {[ok |-> TRUE, n |-> 0]}

SrcRunning == src_call.ret # "Abort"

SrcCalled(name, start, stop, requested, srv_ok, o) ==
    /\ streaming_state' = o.state
    /\ src_call' = [name |-> name, ret |-> o.ret, start |-> start, stop |-> stop,
                    requested |-> requested, srv_ok |-> srv_ok]
    /\ src_pre' = streaming_state
    /\ UNCHANGED adapter_vars

SrcStart ==
    /\ SrcRunning
    /\ \E srv \in Servers(0, None), wraps \in Builds(None) :
        SrcCalled("start", 0, None, TRUE, ServerOk(srv, 0),
                  src_start(streaming_state, "http://host/file", srv, wraps))

SrcStop ==
    /\ SrcRunning
    /\ SrcCalled("stop", 0, None, FALSE, FALSE, src_stop(streaming_state))

SrcSeek ==
    /\ SrcRunning
    /\ \E start \in Offsets, stop \in Stops :
        \E srv \in Servers(start, stop), wraps \in Builds(stop) :
            SrcCalled("seek", start, stop,
                      streaming_state.tag = "Started"
                          /\ ~(streaming_state.position = start /\ streaming_state.stop = stop),
                      ServerOk(srv, start),
                      src_seek(streaming_state, start, stop, srv, wraps))

SrcFill ==
    /\ SrcRunning
    /\ \E offset \in Offsets, len \in BufLens, map_ok \in BOOLEAN :
        \E rd \in Reads(streaming_state, len) :
            SrcCalled("fill", offset, None, FALSE, FALSE,
                      src_fill(streaming_state, offset, map_ok, rd))

SrcNext == SrcStart \/ SrcStop \/ SrcSeek \/ SrcFill

SpecHttp == Init /\ [][SrcNext]_vars

\* the logical stream of an adapter: the front chunk from skip, then the rest
Stream(a) == Drop(Concat(a.deque), a.skip)

TypeOK ==
    /\ size \in Nat /\ skip \in Nat /\ pushed \in 0..MaxBytes
    /\ Len(deque) <= MaxQueue
    /\ call.ret \in {"Ok", "NotEnoughData", "Abort"}

\* ------------------------------------------------------------------ claims
ReadOps == {"peek_into", "peek", "get_buffer", "flush"}

\* the call recorded in `call` asked for no more than was available
Covered == call.n <= get_available(pre)

\* C1: in every reachable state, after successful and failing calls alike,
\* total_available (size) is the sum of the queued chunks' lengths minus skip.
C1_SizeIsSumMinusSkip == get_available(Self) = SumLen(deque) - skip

\* a partial flush has left skip > 0 in front of further chunks
C1_Witness ==
    /\ call.name = "flush" /\ call.ret = "Ok"
    /\ skip > 0 /\ Len(deque) >= 2 /\ Len(pre.deque) > Len(deque)

\* C2: peek_into, peek, get_buffer and flush asked for more than
\* get_available() return NotEnoughData and leave queue, skip and
\* total_available as they were.
C2_TooMuchIsRefused ==
    (call.name \in ReadOps /\ call.n > get_available(pre))
        => /\ call.ret = "NotEnoughData"
           /\ deque = pre.deque /\ skip = pre.skip /\ size = pre.size

\* a flush of more than is available, by less than the skipped bytes
C2_Witness ==
    /\ call.name = "flush" /\ call.n > pre.size
    /\ call.n <= pre.size + pre.skip /\ call.ret = "NotEnoughData"

\* C3: peek_into, get_buffer and flush asked for at most get_available()
\* succeed and never abort (zero-length chunks included): the front chunk is
\* there whenever bytes are available and skip never exceeds its length.
C3_CoveredNeverAborts ==
    /\ (call.name \in {"peek_into", "get_buffer", "flush"} /\ Covered) => call.ret = "Ok"
    /\ (size > 0 => deque # <<>>)
    /\ (deque # <<>> => skip <= Len(Head(deque)))

\* get_buffer copied across a zero-length chunk from a skipped front chunk
C3_Witness ==
    /\ call.name = "get_buffer" /\ call.path = "copy" /\ call.ret = "Ok"
    /\ pre.skip > 0 /\ Len(pre.deque) = 3 /\ Len(pre.deque[2]) = 0

\* C4: get_buffer(N) with N <= get_available() returns a buffer of exactly N
\* bytes and lowers get_available() by N; push of L bytes raises it by L; with
\* nothing available get_buffer(1) returns NotEnoughData.
C4_PushGetAccounting ==
    /\ (call.name = "get_buffer" /\ Covered)
          => /\ call.ret = "Ok"
             /\ Len(call.out) = call.n
             /\ get_available(Self) = get_available(pre) - call.n
    /\ (call.name = "push") => get_available(Self) = get_available(pre) + call.n
    /\ (call.name = "get_buffer" /\ get_available(pre) = 0 /\ call.n = 1)
          => call.ret = "NotEnoughData"

\* get_buffer took bytes from three chunks, ending inside the third
C4_Witness ==
    /\ call.name = "get_buffer" /\ call.ret = "Ok"
    /\ Len(pre.deque) = 3 /\ Len(deque) = 1 /\ skip > 0
    /\ Len(pre.deque[1]) > 0 /\ Len(pre.deque[2]) > 0

\* C5: the N bytes peek_into writes and the N bytes get_buffer(N) returns
\* are the first N bytes of the logical stream (front chunk from skip, then
\* the later chunks from offset 0).
C5_BytesArePrefixOfStream ==
    (call.name \in {"peek_into", "get_buffer"} /\ Covered)
        => call.ret = "Ok" /\ call.out = Take(Stream(pre), call.n)

\* peek_into copied from a skipped front chunk and two later chunks
C5_Witness ==
    /\ call.name = "peek_into" /\ call.ret = "Ok" /\ pre.skip > 0
    /\ Len(pre.deque) = 3 /\ Len(pre.deque[2]) > 0
    /\ call.n > Len(pre.deque[1]) - pre.skip + Len(pre.deque[2])

\* C6: peek(N) with N <= get_available() succeeds and returns the bytes
\* peek_into writes into a destination of length N, on the fast path and on
\* the scratch path.
C6_PeekIsPeekInto ==
    (call.name = "peek" /\ Covered)
        => /\ call.ret = "Ok"
           /\ call.out = peek_into(pre, [i \in 1..call.n |-> 0]).out

\* C6, the part the code keeps: every peek served from the front chunk alone
\* returns the bytes of peek_into.
C6_FastPathIsPeekInto ==
    (call.name = "peek" /\ call.path = "sub")
        => /\ call.ret = "Ok"
           /\ call.out = peek_into(pre, [i \in 1..call.n |-> 0]).out

\* C7: after a successful get_buffer(N) queue, skip and total_available are
\* those flush(N) leaves from the same state, and get_buffer returns what
\* peek(N) followed by flush(N) returns.
C7_StateIsFlushState ==
    (call.name = "get_buffer" /\ Covered)
        => /\ call.ret = "Ok"
           /\ LET fl == flush(pre, call.n) IN
                /\ fl.ret = "Ok"
                /\ deque = fl.a.deque /\ skip = fl.a.skip /\ size = fl.a.size

C7_GetBufferIsPeekThenFlush ==
    (call.name = "get_buffer" /\ Covered)
        => /\ C7_StateIsFlushState
           /\ LET pk == peek(pre, call.n) IN
                /\ pk.ret = "Ok" /\ pk.out = call.out
                /\ LET fl == flush(pk.a, call.n) IN
                     /\ fl.ret = "Ok"
                     /\ deque = fl.a.deque /\ skip = fl.a.skip /\ size = fl.a.size

\* C8: peek(N) followed at once by get_buffer(N) gives the same bytes twice,
\* and get_buffer(N) lowers get_available() by N.
C8_PeekThenGetBuffer ==
    (call.name = "peek" /\ Covered)
        => /\ call.ret = "Ok"
           /\ \A fill \in Fills :
                LET g == get_buffer(Self, call.n, [i \in 1..call.n |-> fill]) IN
                /\ g.ret = "Ok" /\ g.out = call.out
                /\ get_available(g.a) = get_available(Self) - call.n

\* C9: a successful flush(N) lowers get_available() by N and leaves the
\* logical stream without its first N bytes.
C9_FlushDropsPrefix ==
    (call.name = "flush" /\ Covered)
        => /\ call.ret = "Ok"
           /\ get_available(Self) = get_available(pre) - call.n
           /\ Stream(Self) = Drop(Stream(pre), call.n)

\* a flush from a skipped front chunk over a whole chunk into a third
C9_Witness ==
    /\ call.name = "flush" /\ call.ret = "Ok" /\ pre.skip > 0
    /\ Len(pre.deque) = 3 /\ Len(deque) = 1 /\ skip > 0
    /\ Len(pre.deque[2]) > 0

\* C10: flush(N) with N = get_available() leaves the queue empty and
\* skip = 0, zero-length buffers pushed or not.
C10_FlushAllEmptiesQueue ==
    (call.name = "flush" /\ call.ret = "Ok" /\ call.n = get_available(pre))
        => deque = <<>> /\ skip = 0

\* C10, the part the code keeps: after flushing all that is available skip
\* is 0 and only zero-length chunks remain.
C10_FlushAllLeavesNoBytes ==
    (call.name = "flush" /\ call.ret = "Ok" /\ call.n = get_available(pre))
        => skip = 0 /\ \A i \in 1..Len(deque) : Len(deque[i]) = 0

\* C11: in every reachable state 0 <= skip < length(front chunk) when the
\* queue is non-empty and skip = 0 when it is empty, for pushed buffers of
\* any length L >= 0.
C11_SkipInsideFront ==
    /\ skip >= 0
    /\ (deque # <<>> => skip < Len(Head(deque)))
    /\ (deque = <<>> => skip = 0)

\* C11, the part the code keeps: skip never passes the end of the front
\* chunk, reaches it only when that chunk is zero-length, and is 0 when the
\* queue is empty.
C11_SkipWithinFront ==
    /\ skip >= 0
    /\ (deque # <<>> => skip <= Len(Head(deque)))
    /\ (deque # <<>> /\ Len(Head(deque)) > 0 => skip < Len(Head(deque)))
    /\ (deque = <<>> => skip = 0)

\* C12: get_available() is the total length of the buffers pushed minus the
\* bytes removed by successful flush and get_buffer calls, counted from
\* creation or the last clear; failed calls, peek and peek_into count nothing.
C12_AvailableIsPushedMinusRemoved ==
    get_available(Self) = tally.pushed - tally.removed

\* bytes were pushed, flushed and taken by get_buffer after a clear, and a
\* refused call came last
C12_Witness ==
    /\ call.name \in {"flush", "get_buffer"} /\ call.ret = "NotEnoughData"
    /\ tally.removed >= 2 /\ tally.pushed > tally.removed
    /\ tally.pushed < pushed /\ skip > 0

\* C13: peek(N) called twice in a row, for N <= get_available(), returns
\* the same bytes both times and leaves get_available() as it was.
C13_PeekTwice ==
    (call.name = "peek" /\ Covered)
        => /\ call.ret = "Ok"
           /\ get_available(Self) = get_available(pre)
           /\ LET again == peek(Self, call.n) IN
                /\ again.ret = "Ok" /\ again.out = call.out
                /\ get_available(again.a) = get_available(Self)

\* C13, the part the code keeps: a peek served from the front chunk alone
\* repeats with the same bytes and get_available() unchanged.
C13_FastPeekTwice ==
    (call.name = "peek" /\ call.path = "sub")
        => /\ call.ret = "Ok"
           /\ get_available(Self) = get_available(pre)
           /\ LET again == peek(Self, call.n) IN
                /\ again.ret = "Ok" /\ again.out = call.out
                /\ get_available(again.a) = get_available(Self)

\* C14: get_buffer(0), peek(0), peek_into of an empty destination and
\* flush(0) succeed in every state, the empty adapter included, and leave
\* queue, skip and total_available unchanged; get_buffer(0) returns a
\* zero-length buffer.
C14_ZeroIsNoOp ==
    (call.name \in ReadOps /\ call.n = 0)
        => /\ call.ret = "Ok"
           /\ deque = pre.deque /\ skip = pre.skip /\ size = pre.size
           /\ Len(call.out) = 0

\* flush(0) on the adapter as created
C14_Witness ==
    /\ call.name = "flush" /\ call.n = 0 /\ call.ret = "Ok"
    /\ pre = new /\ tally.pushed = 0 /\ pushed = 0

\* the last n bytes of the first `upto` bytes the producer pushed
Pushed(upto, n) == [i \in 1..n |-> ByteAt(upto - n + i)]

\* C15: push of a buffer of length L appends it as the last chunk, adds L to
\* total_available and leaves skip and the chunks already queued as they
\* were; peek_into and get_buffer then deliver the bytes in the order the
\* buffers were pushed.
C15_PushAppendsFifo ==
    /\ (call.name = "push")
          => /\ deque = Append(pre.deque, Pushed(pushed, call.n))
             /\ size = pre.size + call.n
             /\ skip = pre.skip
             /\ Stream(Self) = Stream(pre) \o Pushed(pushed, call.n)
    /\ (call.name \in {"peek_into", "get_buffer"} /\ call.ret = "Ok")
          => call.out = Take(Pushed(pushed, pre.size), call.n)

\* a non-empty buffer pushed behind two chunks, the front one partly consumed
C15_Witness ==
    /\ call.name = "push" /\ call.n > 0
    /\ Len(pre.deque) = 2 /\ pre.skip > 0 /\ Len(pre.deque[2]) > 0

\* C16: clear never fails and leaves the adapter as Adapter::new() makes it
\* (queue empty, total_available 0, skip 0, scratch empty); every request
\* of N >= 1 then returns NotEnoughData until the next push.
C16_ClearIsNew ==
    /\ (call.name = "clear") => call.ret = "Ok" /\ Self = new
    /\ (call.name \in ReadOps /\ pre = new) => Self = new
    /\ (Self = new)
          => \A n \in ReqSizes \ {0}, fill \in Fills :
                LET dest == [i \in 1..n |-> fill] IN
                /\ peek_into(Self, dest).ret = "NotEnoughData"
                /\ peek(Self, n).ret = "NotEnoughData"
                /\ get_buffer(Self, n, dest).ret = "NotEnoughData"
                /\ flush(Self, n).ret = "NotEnoughData"
                /\ peek(Self, n).a = Self /\ get_buffer(Self, n, dest).a = Self
                /\ flush(Self, n).a = Self /\ peek_into(Self, dest).a = Self

\* clear of an adapter holding two chunks behind a partly consumed one
C16_Witness ==
    /\ call.name = "clear" /\ pre.skip > 0 /\ Len(pre.deque) = 3
    /\ pre.size > 2

\* the queue without its zero-length chunks: what it would hold had they
\* never been pushed
RECURSIVE NoEmpty(_)
NoEmpty(q) ==
    IF q = <<>> THEN <<>>
    ELSE IF Len(Head(q)) = 0 THEN NoEmpty(Tail(q))
    ELSE <<Head(q)>> \o NoEmpty(Tail(q))

\* the adapter of the run in which no zero-length buffer was pushed
Without(a) == Adapter(NoEmpty(a.deque), a.size, a.skip, a.scratch)

\* two outcomes a caller cannot tell apart: same Result, same bytes, and
\* adapters that agree once zero-length chunks are left out
SameOutcome(o1, o2) ==
    /\ o1.ret = o2.ret
    /\ o1.out = o2.out
    /\ get_available(o1.a) = get_available(o2.a)
    /\ Without(o1.a) = Without(o2.a)

\* C17: a pushed zero-length buffer changes neither get_available() nor the
\* logical stream, and every later peek_into, get_buffer and flush answers
\* (Result, bytes, get_available()) as in the run where it was never pushed,
\* wherever it sits in the queue.
C17_EmptyBufferIsInvisible ==
    /\ (call.name = "push" /\ call.n = 0)
          => /\ get_available(Self) = get_available(pre)
             /\ Stream(Self) = Stream(pre)
             /\ Without(Self) = Without(pre)
    /\ \A n \in ReqSizes, fill \in Fills :
          LET dest == [i \in 1..n |-> fill] IN
          /\ SameOutcome(peek_into(Self, dest), peek_into(Without(Self), dest))
          /\ SameOutcome(get_buffer(Self, n, dest), get_buffer(Without(Self), n, dest))
          /\ SameOutcome(flush(Self, n), flush(Without(Self), n))
    /\ \A l \in ChunkLens :
          Without(push(Self, NewBuffer(pushed, l)))
              = IF l = 0 THEN Without(Self)
                ELSE push(Without(Self), NewBuffer(pushed, l))

\* zero-length chunks at the front, in the middle and at the tail of queues
\* that hold bytes: here one between two non-empty chunks, the front one
\* partly consumed, after a get_buffer
C17_Witness ==
    /\ call.name = "get_buffer" /\ call.ret = "Ok"
    /\ Len(deque) = 3 /\ skip > 0
    /\ Len(deque[1]) > 0 /\ Len(deque[2]) = 0 /\ Len(deque[3]) > 0

\* the front chunk alone holds the n bytes asked for
FrontCovers(a, n) == a.deque # <<>> /\ Len(Head(a.deque)) - a.skip >= n

\* C18: for N >= 1 peek(N) and get_buffer(N) take the zero-copy path exactly
\* when length(front chunk) - skip >= N; the result is then the range
\* [skip, skip + N) of the front chunk and scratch is left as it was; the
\* copy path is taken only when the request reaches past the front chunk.
C18_ZeroCopyIffFrontCovers ==
    (call.name \in {"peek", "get_buffer"} /\ Covered /\ call.n >= 1)
        => /\ call.path \in {"sub", "copy"}
           /\ (call.path = "sub") <=> FrontCovers(pre, call.n)
           /\ (call.path = "sub")
                 => /\ call.ret = "Ok"
                    /\ call.out = [i \in 1..call.n |-> Head(pre.deque)[pre.skip + i]]
                    /\ scratch = pre.scratch

\* a peek that the rest of a partly consumed front chunk covers exactly
C18_Witness ==
    /\ call.name = "peek" /\ call.path = "sub" /\ pre.skip > 0
    /\ call.n = Len(Head(pre.deque)) - pre.skip /\ Len(pre.deque) >= 2

\* the state of flush's loop after at most k iterations from f
RECURSIVE flush_run(_, _)
flush_run(f, k) ==
    IF k = 0 \/ ~f.ok \/ f.left <= 0 THEN f ELSE flush_run(flush_step(f), k - 1)

\* the iterations flush's loop makes from f, counted up to k
RECURSIVE flush_iterations(_, _)
flush_iterations(f, k) ==
    IF k = 0 \/ ~f.ok \/ f.left <= 0 THEN 0 ELSE 1 + flush_iterations(flush_step(f), k - 1)

\* C19: flush(N) with N <= get_available() terminates: every iteration of its
\* loop pops the front chunk or sets left to 0, so the loop has ended after
\* at most as many iterations as there are queued chunks, zero-length
\* chunks included.
C19_FlushLoopEnds ==
    (call.name = "flush" /\ Covered /\ call.n >= 1)
        => LET start == [ok |-> TRUE, a |-> pre, left |-> call.n]
               chunks == Len(pre.deque) IN
           /\ call.ret = "Ok"
           /\ flush_iterations(start, chunks + 1) <= chunks
           /\ flush_run(start, chunks).left = 0
           /\ flush_run(start, chunks).a.deque = deque
           /\ \A k \in 0..(chunks - 1) :
                 LET f == flush_run(start, k) IN
                 (f.ok /\ f.left > 0)
                     => LET g == flush_step(f) IN
                        /\ g.ok
                        /\ \/ Len(g.a.deque) = Len(f.a.deque) - 1
                           \/ g.left = 0

\* a flush of three iterations: from a partly consumed front chunk over a
\* zero-length chunk to the end of the third
C19_Witness ==
    /\ call.name = "flush" /\ call.ret = "Ok" /\ deque = <<>>
    /\ Len(pre.deque) = 3 /\ pre.skip > 0 /\ Len(pre.deque[2]) = 0
    /\ flush_iterations([ok |-> TRUE, a |-> pre, left |-> call.n], 4) = 3

\* C20: peek_into and peek leave queue, skip and total_available as they
\* were, whether they succeed or fail (peek may change scratch only), so the
\* next mutating call answers as it would have without them.
C20_PeeksDoNotConsume ==
    (call.name \in {"peek_into", "peek"})
        => /\ deque = pre.deque /\ skip = pre.skip /\ size = pre.size
           /\ (call.name = "peek_into" => scratch = pre.scratch)
           /\ \A n \in ReqSizes, fill \in Fills :
                LET dest == [i \in 1..n |-> fill]
                    f1 == flush(Self, n)
                    f0 == flush(pre, n)
                    g1 == get_buffer(Self, n, dest)
                    g0 == get_buffer(pre, n, dest) IN
                /\ f1.ret = f0.ret /\ f1.a.deque = f0.a.deque
                /\ f1.a.skip = f0.a.skip /\ f1.a.size = f0.a.size
                /\ g1.ret = g0.ret /\ g1.out = g0.out /\ g1.a.deque = g0.a.deque
                /\ g1.a.skip = g0.a.skip /\ g1.a.size = g0.a.size

\* a peek served from a partly consumed front chunk with a chunk behind it
C20_Witness ==
    /\ call.name = "peek" /\ call.ret = "Ok" /\ call.n >= 1
    /\ pre.skip > 0 /\ Len(pre.deque) >= 2 /\ Len(pre.deque[2]) > 0

\* the offset in the resource of the next byte the response delivers: where
\* the request started plus what fill has read since
StreamOffset(st) == st.start + st.response.read

\* C21: in every Started state position is the absolute offset of the next
\* byte of the response (request start plus bytes read by fill); after a
\* successful seek(start, stop) fill accepts offset = start and rejects every
\* other offset with SeekFailed; and seek returns without a new request only
\* when the stream is at `start` with the same stop.
C21_PositionIsStreamOffset ==
    /\ (streaming_state.tag = "Started")
          => streaming_state.position = StreamOffset(streaming_state)
    /\ (src_call.name = "seek" /\ src_call.ret = "Ok")
          => \A offset \in Offsets, len \in BufLens :
                \A rd \in Reads(streaming_state, len) :
                    (src_fill(streaming_state, offset, TRUE, rd).ret = "SeekFailed")
                        <=> (offset # src_call.start)
    /\ (src_call.name = "seek" /\ src_call.ret = "Ok" /\ ~src_call.requested)
          => /\ StreamOffset(src_pre) = src_call.start
             /\ src_pre.stop = src_call.stop

\* C21, what the code keeps: position is the number of bytes fill has read
\* from the current response, counted from 0 whatever the request's start.
C21_PositionCountsBytesRead ==
    (streaming_state.tag = "Started")
        => streaming_state.position = streaming_state.response.read

\* C22: HttpSrc begins Stopped and is Started only through a successful
\* request: a start or non-trivial seek whose request fails (send error,
\* failure status, range start other than asked) leaves it Stopped; stop
\* leaves it Stopped; in Stopped, seek and fill return an error and change
\* nothing, is_seekable() is false and get_size() is None.
C22_StartedOnlyByRequest ==
    /\ (src_call.name = "new") => streaming_state = Stopped
    /\ (src_call.requested /\ ~src_call.srv_ok)
          => src_call.ret # "Ok" /\ streaming_state = Stopped
    /\ (src_call.requested /\ src_call.ret # "Ok") => streaming_state = Stopped
    /\ (src_call.name = "stop") => src_call.ret = "Ok" /\ streaming_state = Stopped
    /\ (src_call.name \in {"seek", "fill"} /\ src_pre = Stopped)
          => src_call.ret = "Failure" /\ streaming_state = Stopped
    /\ (streaming_state = Stopped)
          => ~is_seekable(streaming_state) /\ get_size(streaming_state) = None
    /\ (streaming_state.tag = "Started" /\ streaming_state # src_pre)
          => \/ src_call.requested /\ src_call.srv_ok /\ src_call.ret = "Ok"
             \/ src_call.name = "fill" /\ src_call.ret = "Ok" /\ src_pre.tag = "Started"

\* a seek on a source that had delivered bytes, answered with a range that
\* starts elsewhere
C22_Witness ==
    /\ src_call.name = "seek" /\ src_call.requested /\ src_call.ret = "SeekFailed"
    /\ src_pre.tag = "Started" /\ src_pre.position > 0
    /\ streaming_state = Stopped

====
